---- MODULE Spec2Model ----
(***************************************************************************)
(* A model of the two build-time generators of the repository:             *)
(*   gen.py         reads the package configs, writes BUILD.gn, the boot   *)
(*                  manifest and its depfile, then runs `gn gen`;          *)
(*   make_crate.py  writes Cargo.toml and src/lib.rs for a set of          *)
(*                  generated fidl sources.                                *)
(* A path or a file name is a sequence of tokens: "/" is the separator,    *)
(* "." the extension separator, ".." the parent directory, and every other *)
(* token a run of ordinary characters.                                     *)
(***************************************************************************)
EXTENDS Integers, Sequences, FiniteSets, TLC

VARIABLES
    script,        \* which of the two scripts this process runs
    \* ---- gen.py ----
    fs,            \* the package config files: name -> content
    outdir,        \* args.outdir
    run,           \* number of the current invocation of gen.py
    pc,            \* position of main()
    ci,            \* index in package_configs of the next config to parse
    labels,        \* main's labels list
    binaries,      \* main's binaries list
    disk,          \* the output files and the output directory
    written,       \* the output files this invocation has written
    gn_calls,      \* subprocess.check_call invocations of this invocation
    gn_status,     \* exit status of the gn subprocess (-1: not run)
    exit_status,   \* exit status of the process (-1: still running)
    abort_at,      \* where an exception left main ("" if none)
    prev,          \* the output files as the previous invocation left them
    \* ---- make_crate.py ----
    inputs,        \* make_crate's inputs
    dep_inputs,    \* make_crate's dep_inputs
    mc_pc,         \* position of make_crate()
    mc_i,          \* loop index of the running for loop
    cargo_f,       \* lines written to Cargo.toml
    src_f          \* lines written to src/lib.rs

gen_vars == <<fs, outdir, run, pc, ci, labels, binaries, disk, written,
              gn_calls, gn_status, exit_status, abort_at, prev>>
mc_vars == <<inputs, dep_inputs, mc_pc, mc_i, cargo_f, src_f>>
vars == <<script, gen_vars, mc_vars>>

----------------------------------------------------------------------------
(* Bounds *)

\* invocations of gen.py on the same inputs and the same disk
MaxRuns == 2
\* longest inputs list handed to make_crate
MaxInputs == 2
\* longest dep_inputs list handed to make_crate
MaxDeps == 1

----------------------------------------------------------------------------
(* os.path *)

Last(s) == s[Len(s)]

RECURSIVE Repeat(_, _)
Repeat(x, n) == IF n = 0 THEN <<>> ELSE <<x>> \o Repeat(x, n - 1)

\* index of the last occurrence of token t in p, 0 if none (str.rfind)
RECURSIVE rfind(_, _)
rfind(p, t) ==
    IF p = <<>> THEN 0
    ELSE IF Last(p) = t THEN Len(p)
    ELSE rfind(SubSeq(p, 1, Len(p) - 1), t)

isabs(p) == p # <<>> /\ Head(p) = "/"

\* posixpath.join(a, b)
join(a, b) ==
    IF isabs(b) THEN b
    ELSE IF a = <<>> \/ Last(a) = "/" THEN a \o b
    ELSE a \o <<"/">> \o b

\* posixpath.join(a, *ps)
RECURSIVE joinall(_, _)
joinall(a, ps) == IF ps = <<>> THEN a ELSE joinall(join(a, Head(ps)), Tail(ps))

\* str.split("/"): the components of p, empty ones included
RECURSIVE split(_)
split(p) ==
    LET i == rfind(p, "/") IN
    IF i = 0 THEN <<p>>
    ELSE split(SubSeq(p, 1, i - 1)) \o <<SubSeq(p, i + 1, Len(p))>>

\* the component stack of posixpath.normpath
RECURSIVE normcomps(_, _, _)
normcomps(comps, stack, abs) ==
    IF comps = <<>> THEN stack
    ELSE LET c == Head(comps) IN
         IF c = <<>> \/ c = <<".">> THEN normcomps(Tail(comps), stack, abs)
         ELSE IF c # <<"..">> \/ (~abs /\ stack = <<>>)
                   \/ (stack # <<>> /\ Last(stack) = <<"..">>)
              THEN normcomps(Tail(comps), Append(stack, c), abs)
         ELSE IF stack # <<>>
              THEN normcomps(Tail(comps), SubSeq(stack, 1, Len(stack) - 1), abs)
         ELSE normcomps(Tail(comps), stack, abs)

\* "/".join(comps)
RECURSIVE joincomps(_)
joincomps(comps) ==
    IF comps = <<>> THEN <<>>
    ELSE IF Len(comps) = 1 THEN Head(comps)
    ELSE Head(comps) \o <<"/">> \o joincomps(Tail(comps))

\* posixpath.normpath(p)
normpath(p) ==
    LET comps == normcomps(split(p), <<>>, isabs(p))
        body == joincomps(comps)
    IN  IF isabs(p) THEN <<"/">> \o body
        ELSE IF body = <<>> THEN <<".">> ELSE body

\* posixpath.abspath(p) in working directory cwd
abspath(cwd, p) == normpath(IF isabs(p) THEN p ELSE join(cwd, p))

\* str.rstrip("/")
RECURSIVE rstrip(_)
rstrip(p) ==
    IF p # <<>> /\ Last(p) = "/" THEN rstrip(SubSeq(p, 1, Len(p) - 1)) ELSE p

\* posixpath.dirname(p)
dirname(p) ==
    LET head == SubSeq(p, 1, rfind(p, "/")) IN
    IF head # <<>> /\ head # Repeat("/", Len(head)) THEN rstrip(head) ELSE head

\* posixpath.basename(p)
basename(p) == SubSeq(p, rfind(p, "/") + 1, Len(p))

\* posixpath.splitext(p): <<root, ext>>
splitext(p) ==
    LET sepIndex == rfind(p, "/")
        dotIndex == rfind(p, ".")
    IN  IF dotIndex > sepIndex
           /\ \E j \in (sepIndex + 1)..(dotIndex - 1) : p[j] \notin {".", ".."}
        THEN <<SubSeq(p, 1, dotIndex - 1), SubSeq(p, dotIndex, Len(p))>>
        ELSE <<p, <<>>>>

\* the non-empty components of an absolute path
pathlist(p) == SelectSeq(split(p), LAMBDA c : c # <<>>)

\* length of the longest common prefix of two component lists
RECURSIVE commonlen(_, _)
commonlen(a, b) ==
    IF a = <<>> \/ b = <<>> \/ Head(a) # Head(b) THEN 0
    ELSE 1 + commonlen(Tail(a), Tail(b))

\* posixpath.relpath(path, start) in working directory cwd
relpath(cwd, path, start) ==
    LET start_list == pathlist(abspath(cwd, start))
        path_list == pathlist(abspath(cwd, path))
        i == commonlen(start_list, path_list)
        rel_list == Repeat(<<"..">>, Len(start_list) - i)
                    \o SubSeq(path_list, i + 1, Len(path_list))
    IN  IF rel_list = <<>> THEN <<".">> ELSE joincomps(rel_list)

----------------------------------------------------------------------------
(* gen.py: inputs *)

package_configs == <<"fortune", "ftl", "mojo", "mtl">>

\* directory of gen.py, os.path.abspath(os.path.dirname(__file__))
packages_path == <<"/", "fuchsia", "/", "packages">>

\* A key of a JSON object is a sequence: <<>> when the key is absent, <<v>>
\* when it is present with value v.
Bin(binary, bootfs_path) == [binary |-> binary, bootfs_path |-> bootfs_path]

BinRel == Bin(<<<<"a", ".", "bin">>>>, <<"bin/a">>)
BinAbs == Bin(<<<<"/", "prebuilt", "/", "b">>>>, <<"bin/b">>)
BinNoPath == Bin(<<<<"c", ".", "bin">>>>, <<>>)

\* The content of a config file: whether open() succeeds, whether json.load
\* succeeds, and the object's keys. bkind is "missing" (no `binaries` key),
\* "scalar" (a number: not iterable) or "list".
Config(readable, json, label, bkind, items) ==
    [readable |-> readable, json |-> json, label |-> label,
     bkind |-> bkind, items |-> items]

Unreadable == Config(FALSE, FALSE, <<>>, "missing", <<>>)
NotJSON == Config(TRUE, FALSE, <<>>, "missing", <<>>)
Object(label, bkind, items) == Config(TRUE, TRUE, label, bkind, items)

ConfigFiles ==
    { Unreadable,
      NotJSON,
      Object(<<>>, "list", <<BinRel>>),
      Object(<<"//a">>, "missing", <<>>),
      Object(<<"//b">>, "scalar", <<>>),
      Object(<<"//b">>, "list", <<BinRel, BinNoPath, BinAbs>>),
      Object(<<"//a">>, "list", <<BinRel>>),
      Object(<<"//b">>, "list", <<BinAbs, BinRel>>) }

\* values of --outdir: the default, and an absolute directory
OutDirs == { <<"out", "/", "Debug">>, <<"/", "tmp", "/", "out">> }

\* a config the spec calls valid: every required key is there
ValidBinary(b) == Len(b.binary) = 1 /\ Len(b.bootfs_path) = 1
Valid(c) ==
    /\ c.readable /\ c.json /\ Len(c.label) = 1 /\ c.bkind = "list"
    /\ \A j \in 1..Len(c.items) : ValidBinary(c.items[j])

----------------------------------------------------------------------------
(* gen.py: parse_config *)

\* lines 26-30: the loop over c["binaries"], left at the first object that
\* raises KeyError
RECURSIVE append_binaries(_, _)
append_binaries(items, bins) ==
    IF items = <<>> THEN bins
    ELSE LET b == Head(items) IN
         IF ~ValidBinary(b) THEN bins
         ELSE append_binaries(Tail(items),
                  Append(bins, [binary |-> b.binary[1],
                                bootfs_path |-> b.bootfs_path[1]]))

\* Mutant: a config that is not JSON still leaves a placeholder label.
parse_config_placeholder(c, ls, bins) ==
    IF ~c.readable THEN [labels |-> ls, binaries |-> bins, raised |-> TRUE]
    ELSE IF ~c.json
         THEN [labels |-> Append(ls, "?"), binaries |-> bins, raised |-> FALSE]
    ELSE IF c.label = <<>>
         THEN [labels |-> ls, binaries |-> bins, raised |-> FALSE]
    ELSE IF c.bkind # "list"
         THEN [labels |-> Append(ls, c.label[1]), binaries |-> bins,
               raised |-> FALSE]
    ELSE [labels |-> Append(ls, c.label[1]),
          binaries |-> append_binaries(c.items, bins), raised |-> FALSE]

\* Mutant: open() is inside the try block.
parse_config_open_in_try(c, ls, bins) ==
    IF ~c.readable \/ ~c.json \/ c.label = <<>>
    THEN [labels |-> ls, binaries |-> bins, raised |-> FALSE]
    ELSE IF c.bkind # "list"
         THEN [labels |-> Append(ls, c.label[1]), binaries |-> bins,
               raised |-> FALSE]
    ELSE [labels |-> Append(ls, c.label[1]),
          binaries |-> append_binaries(c.items, bins), raised |-> FALSE]

\* parse_config(config, labels, binaries): the lists after the call, and
\* whether an exception left it. open() is outside the try block; every
\* exception inside it is caught and printed.
parse_config(c, ls, bins) ==
    IF ~c.readable THEN [labels |-> ls, binaries |-> bins, raised |-> TRUE]
    ELSE IF ~c.json \/ c.label = <<>>
         THEN [labels |-> ls, binaries |-> bins, raised |-> FALSE]
    ELSE IF c.bkind # "list"
         THEN [labels |-> Append(ls, c.label[1]), binaries |-> bins,
               raised |-> FALSE]
    ELSE [labels |-> Append(ls, c.label[1]),
          binaries |-> append_binaries(c.items, bins), raised |-> FALSE]


----------------------------------------------------------------------------
(* gen.py: the output files *)

\* a file on disk
File(text) == [exists |-> TRUE, text |-> text]
Absent == [exists |-> FALSE, text |-> <<>>]

Text(t) == [kind |-> "text", val |-> t]
Dep(l) == [kind |-> "dep", val |-> l]

\* Mutant: the labels are written in sorted-set fashion, each once.
RECURSIVE uniq(_)
uniq(ls) ==
    IF ls = <<>> THEN <<>>
    ELSE LET init == SubSeq(ls, 1, Len(ls) - 1) IN
         IF \E j \in 1..Len(init) : init[j] = Last(ls)
         THEN uniq(init) ELSE Append(uniq(init), Last(ls))
build_gn_text_uniq(ls) ==
    <<Text(""), Text("# NOTE: This file is auto-generated by gen.py. Do not edit by hand."),
      Text(""), Text("group(\"default\") {"), Text("  testonly = true"),
      Text("  deps = ["), Dep("//packages/mkbootfs"), Text("")>>
    \o [j \in 1..Len(uniq(ls)) |-> Dep(uniq(ls)[j])]
    \o <<Text("  ]"), Text("}")>>

\* lines 47-61: the lines of BUILD.gn. A dependency line is `    "<label>",`.
build_gn_text(ls) ==
    <<Text(""), Text("# NOTE: This file is auto-generated by gen.py. Do not edit by hand."),
      Text(""), Text("group(\"default\") {"), Text("  testonly = true"),
      Text("  deps = ["), Dep("//packages/mkbootfs"), Text("")>>
    \o [j \in 1..Len(ls) |-> Dep(ls[j])]
    \o <<Text("  ]"), Text("}")>>

\* lines 62-64
base_path == abspath(packages_path, join(packages_path, <<"..">>))
outdir_path(od) == join(base_path, od)
pkg_gen_dir(od) ==
    joinall(outdir_path(od), << <<"gen">>, <<"packages">>, <<"mkbootfs">> >>)

\* Mutant: the source path is the relative binary path, not joined.
manifest_text_nojoin(bins, od) ==
    [j \in 1..Len(bins) |->
        [dest |-> bins[j].bootfs_path, src |-> bins[j].binary]]

\* lines 68-71: the lines of user.bootfs.manifest, `<bootfs_path>=<binary_path>`
manifest_text(bins, od) ==
    [j \in 1..Len(bins) |->
        [dest |-> bins[j].bootfs_path,
         src |-> join(outdir_path(od), bins[j].binary)]]

\* Mutant: the depfile lists the binaries in reverse.
depfile_text_reversed(bins) ==
    << << <<"user", ".", "bootfs", ":">>,
          <<"gen", "/", "packages", "/", "mkbootfs", "/",
            "user", ".", "bootfs", ".", "manifest">> >>
       \o [j \in 1..Len(bins) |-> bins[Len(bins) + 1 - j].binary] >>

\* lines 73-76: the lines of user.bootfs.d, each a sequence of words
depfile_text(bins) ==
    << << <<"user", ".", "bootfs", ":">>,
          <<"gen", "/", "packages", "/", "mkbootfs", "/",
            "user", ".", "bootfs", ".", "manifest">> >>
       \o [j \in 1..Len(bins) |-> bins[j].binary] >>

\* what an earlier build left behind
StaleBuildGn == File(<<Text("# stale")>>)
StaleManifest == File(<<[dest |-> "bin/old", src |-> <<"/", "old">>]>>)
StaleDepfile == File(<< << <<"user", ".", "bootfs", ":">>, <<"old">> >> >>)

FreshDisk ==
    [dir |-> FALSE, build_gn |-> Absent, manifest |-> Absent, depfile |-> Absent]
StaleDisk ==
    [dir |-> TRUE, build_gn |-> StaleBuildGn, manifest |-> StaleManifest,
     depfile |-> StaleDepfile]

NoPrev == [written |-> {}, build_gn |-> Absent, manifest |-> Absent,
           depfile |-> Absent]

----------------------------------------------------------------------------
(* gen.py: main *)

GenIdle ==
    /\ fs = [n \in {} |-> Unreadable] /\ outdir = <<>> /\ run = 0
    /\ pc = "idle" /\ ci = 0 /\ labels = <<>> /\ binaries = <<>>
    /\ disk = FreshDisk /\ written = {} /\ gn_calls = 0 /\ gn_status = -1
    /\ exit_status = -1 /\ abort_at = "" /\ prev = NoPrev

ConfigNames == {package_configs[j] : j \in 1..Len(package_configs)}

\* lines 35-42: argument parsing, the empty lists, chdir
GenInit ==
    /\ fs \in [ConfigNames -> ConfigFiles]
    /\ outdir \in OutDirs
    /\ disk \in {FreshDisk, StaleDisk}
    /\ run = 1 /\ pc = "parse" /\ ci = 1
    /\ labels = <<>> /\ binaries = <<>>
    /\ written = {} /\ gn_calls = 0 /\ gn_status = -1
    /\ exit_status = -1 /\ abort_at = "" /\ prev = NoPrev

\* an unhandled exception leaves main: the interpreter exits with status 1
Abort(where) ==
    /\ pc' = "Aborted" /\ abort_at' = where /\ exit_status' = 1

\* lines 43-44: one iteration of the loop over package_configs
ParseConfig ==
    /\ script = "gen" /\ pc = "parse"
    /\ LET r == parse_config(fs[package_configs[ci]], labels, binaries) IN
       IF r.raised
       THEN /\ Abort("open_config")
            /\ UNCHANGED <<ci, labels, binaries>>
       ELSE /\ labels' = r.labels
            /\ binaries' = r.binaries
            /\ ci' = ci + 1
            /\ pc' = IF ci = Len(package_configs) THEN "write_build_gn" ELSE "parse"
            /\ UNCHANGED <<abort_at, exit_status>>
    /\ UNCHANGED <<script, fs, outdir, run, disk, written, gn_calls, gn_status,
                   prev, mc_vars>>

\* lines 46-61: BUILD.gn is opened with "w" in the working directory and
\* written; open() may raise IOError
WriteBuildGn ==
    /\ script = "gen" /\ pc = "write_build_gn"
    /\ \/ /\ disk' = [disk EXCEPT !.build_gn = File(build_gn_text(labels))]
          /\ written' = written \cup {"BUILD.gn"}
          /\ pc' = "makedirs"
          /\ UNCHANGED <<abort_at, exit_status>>
       \/ /\ Abort("open_output")
          /\ UNCHANGED <<disk, written>>
    /\ UNCHANGED <<script, fs, outdir, run, ci, labels, binaries, gn_calls,
                   gn_status, prev, mc_vars>>

\* Mutant: the directory is never created, and main goes on.
MakeDirs_no_create ==
    /\ script = "gen" /\ pc = "makedirs"
    /\ pc' = "write_manifest"
    /\ UNCHANGED <<script, fs, outdir, run, ci, labels, binaries, disk, written,
                   gn_calls, gn_status, exit_status, abort_at, prev, mc_vars>>

\* lines 65-66: os.makedirs when pkg_gen_dir is no directory; it may raise OSError
MakeDirs ==
    /\ script = "gen" /\ pc = "makedirs"
    /\ \/ /\ disk.dir
          /\ pc' = "write_manifest"
          /\ UNCHANGED <<disk, abort_at, exit_status>>
       \/ /\ ~disk.dir
          /\ disk' = [disk EXCEPT !.dir = TRUE]
          /\ pc' = "write_manifest"
          /\ UNCHANGED <<abort_at, exit_status>>
       \/ /\ ~disk.dir
          /\ Abort("makedirs")
          /\ UNCHANGED disk
    /\ UNCHANGED <<script, fs, outdir, run, ci, labels, binaries, written,
                   gn_calls, gn_status, prev, mc_vars>>

\* Mutant: the manifest is opened with "a".
WriteManifest_append ==
    /\ script = "gen" /\ pc = "write_manifest"
    /\ disk' = [disk EXCEPT
                   !.manifest = File(@.text \o manifest_text(binaries, outdir))]
    /\ written' = written \cup {"user.bootfs.manifest"}
    /\ pc' = "write_depfile"
    /\ UNCHANGED <<script, fs, outdir, run, ci, labels, binaries, gn_calls,
                   gn_status, exit_status, abort_at, prev, mc_vars>>

\* lines 67-71: the manifest is opened with "w" and written; open() may raise
\* IOError
WriteManifest ==
    /\ script = "gen" /\ pc = "write_manifest"
    /\ \/ /\ disk' = [disk EXCEPT
                         !.manifest = File(manifest_text(binaries, outdir))]
          /\ written' = written \cup {"user.bootfs.manifest"}
          /\ pc' = "write_depfile"
          /\ UNCHANGED <<abort_at, exit_status>>
       \/ /\ Abort("open_output")
          /\ UNCHANGED <<disk, written>>
    /\ UNCHANGED <<script, fs, outdir, run, ci, labels, binaries, gn_calls,
                   gn_status, prev, mc_vars>>

\* lines 72-76: the depfile is opened with "w" and written; open() may raise
\* IOError
WriteDepfile ==
    /\ script = "gen" /\ pc = "write_depfile"
    /\ \/ /\ disk' = [disk EXCEPT !.depfile = File(depfile_text(binaries))]
          /\ written' = written \cup {"user.bootfs.d"}
          /\ pc' = "invoke_gn"
          /\ UNCHANGED <<abort_at, exit_status>>
       \/ /\ Abort("open_output")
          /\ UNCHANGED <<disk, written>>
    /\ UNCHANGED <<script, fs, outdir, run, ci, labels, binaries, gn_calls,
                   gn_status, prev, mc_vars>>

\* Mutant: subprocess.call, whose exit status main ignores.
InvokeGn_ignore_status ==
    /\ script = "gen" /\ pc = "invoke_gn"
    /\ gn_calls' = gn_calls + 1
    /\ gn_status' \in {0, 1}
    /\ pc' = "Done" /\ exit_status' = 0
    /\ UNCHANGED <<script, fs, outdir, run, ci, labels, binaries, disk, written,
                   abort_at, prev, mc_vars>>

\* lines 77-84: subprocess.check_call blocks until gn exits; a non-zero exit
\* raises CalledProcessError, a zero exit lets main return 0
InvokeGn ==
    /\ script = "gen" /\ pc = "invoke_gn"
    /\ gn_calls' = gn_calls + 1
    /\ \/ /\ gn_status' = 0
          /\ pc' = "Done" /\ exit_status' = 0
          /\ UNCHANGED abort_at
       \/ /\ gn_status' = 1
          /\ Abort("gn")
    /\ UNCHANGED <<script, fs, outdir, run, ci, labels, binaries, disk, written,
                   prev, mc_vars>>

\* gen.py is run again on the same configs, with the same --outdir, on the
\* disk the last invocation left
RunAgain ==
    /\ script = "gen" /\ pc \in {"Done", "Aborted"} /\ run < MaxRuns
    /\ run' = run + 1
    /\ prev' = [written |-> written, build_gn |-> disk.build_gn,
                manifest |-> disk.manifest, depfile |-> disk.depfile]
    /\ pc' = "parse" /\ ci' = 1 /\ labels' = <<>> /\ binaries' = <<>>
    /\ written' = {} /\ gn_calls' = 0 /\ gn_status' = -1
    /\ exit_status' = -1 /\ abort_at' = ""
    /\ UNCHANGED <<script, fs, outdir, disk, mc_vars>>

GenNext ==
    \/ ParseConfig \/ WriteBuildGn \/ MakeDirs \/ WriteManifest
    \/ WriteDepfile \/ InvokeGn \/ RunAgain


----------------------------------------------------------------------------
(* make_crate.py *)

\* working directory of the build action, and the arguments --gen-dir and
\* --output
mc_cwd == <<"/", "b">>
gen_dir == <<"gen">>
output == <<"lib", "/", "app">>

InputPaths ==
    { <<"gen", "/", "lib", "/", "app", "/", "src", "/", "a", ".", "rs">>,
      <<"gen", "/", "lib", "/", "app", "/", "a", ".", "fidl", ".", "rs">>,
      <<"/", "b", "/", "gen", "/", "lib", "/", "app", "/", "src", "/",
        "c", ".", "fidl", ".", "rs">>,
      <<"gen", "/", "lib", "/", "app", "/", "src", "/", "d", ".", "txt">>,
      <<"..", "/", "src", "/", "a", ".", "rs">> }

DepLabels == { <<"//", "lib", "/", "x", ":", "x">>, <<"//", "lib", "/", "y">> }

SeqsUpTo(S, n) == UNION {[1..m -> S] : m \in 0..n}

\* label_to_crate is imported from a module that is not among the sources:
\* it is kept uninterpreted, a crate name is the term label_to_crate(<label>)
label_to_crate(label) == <<"label_to_crate(">> \o label \o <<")">>

Line(kind, arg) == [kind |-> kind, arg |-> arg]

\* lines 22-23, 34
cargo_toml_dir == join(gen_dir, output)
lib_fn == joinall(cargo_toml_dir, << <<"src">>, <<"lib", ".", "rs">> >>)

\* line 50 (and 56)
mod_name(i) == splitext(basename(i))[1]

\* Mutant: the relative path is compared with the file name, extension kept.
mod_lines_keep_ext(i) ==
    LET rel == relpath(mc_cwd, i, dirname(lib_fn)) IN
    (IF rel # basename(i) THEN <<Line("path", rel)>> ELSE <<>>)
    \o <<Line("mod", mod_name(i))>>

\* lines 49-53: what one iteration of the first loop over inputs writes
mod_lines(i) ==
    LET rel == relpath(mc_cwd, i, dirname(lib_fn)) IN
    (IF rel # mod_name(i) \o <<".", "rs">> THEN <<Line("path", rel)>> ELSE <<>>)
    \o <<Line("mod", mod_name(i))>>

McIdle ==
    /\ inputs = <<>> /\ dep_inputs = <<>> /\ mc_pc = "idle" /\ mc_i = 0
    /\ cargo_f = <<>> /\ src_f = <<>>

\* lines 70-79: the lists main hands to make_crate
McInit ==
    /\ inputs \in SeqsUpTo(InputPaths, MaxInputs)
    /\ dep_inputs \in SeqsUpTo(DepLabels, MaxDeps)
    /\ mc_pc = "cargo" /\ mc_i = 0
    /\ cargo_f = <<>> /\ src_f = <<>>

\* lines 20-32
WriteCargoToml ==
    /\ script = "make_crate" /\ mc_pc = "cargo"
    /\ cargo_f' =
         <<Line("text", <<"# Autogenerated by //garnet/public/lib/fidl/build/make_crate.py">>),
           Line("text", <<"[package]">>),
           Line("name", label_to_crate(output)),
           Line("text", <<"version = \"0.1.0\"">>),
           Line("text", <<>>),
           Line("text", <<"[dependencies]">>),
           Line("text", <<"futures = \"0.1\"">>),
           Line("text", <<"tokio-core = \"0.1.9\"">>)>>
    /\ mc_pc' = "lib_header"
    /\ UNCHANGED <<script, gen_vars, inputs, dep_inputs, mc_i, src_f>>

\* lines 34-42
WriteLibHeader ==
    /\ script = "make_crate" /\ mc_pc = "lib_header"
    /\ src_f' =
         <<Line("text", <<"// Autogenerated by //garnet/public/lib/fidl/build/make_crate.py">>),
           Line("text", <<"#[macro_use]">>),
           Line("text", <<"extern crate fidl;">>),
           Line("text", <<"extern crate fuchsia_zircon as zircon;">>),
           Line("text", <<"extern crate futures;">>),
           Line("text", <<"extern crate tokio_core;">>),
           Line("text", <<"extern crate tokio_fuchsia;">>)>>
    /\ mc_pc' = "deps" /\ mc_i' = 1
    /\ UNCHANGED <<script, gen_vars, inputs, dep_inputs, cargo_f>>

\* lines 43-46: one iteration of the loop over dep_inputs
WriteDep ==
    /\ script = "make_crate" /\ mc_pc = "deps" /\ mc_i <= Len(dep_inputs)
    /\ src_f' = Append(src_f,
                       Line("pub_extern_crate", label_to_crate(dep_inputs[mc_i])))
    /\ mc_i' = mc_i + 1
    /\ UNCHANGED <<script, gen_vars, inputs, dep_inputs, mc_pc, cargo_f>>

\* line 47
EndDeps ==
    /\ script = "make_crate" /\ mc_pc = "deps" /\ mc_i > Len(dep_inputs)
    /\ src_f' = Append(src_f, Line("text", <<>>))
    /\ mc_pc' = "mods" /\ mc_i' = 1
    /\ UNCHANGED <<script, gen_vars, inputs, dep_inputs, cargo_f>>

\* lines 48-53: one iteration of the first loop over inputs
WriteMod ==
    /\ script = "make_crate" /\ mc_pc = "mods" /\ mc_i <= Len(inputs)
    /\ src_f' = src_f \o mod_lines(inputs[mc_i])
    /\ mc_i' = mc_i + 1
    /\ UNCHANGED <<script, gen_vars, inputs, dep_inputs, mc_pc, cargo_f>>

\* line 54
EndMods ==
    /\ script = "make_crate" /\ mc_pc = "mods" /\ mc_i > Len(inputs)
    /\ src_f' = Append(src_f, Line("text", <<>>))
    /\ mc_pc' = "uses" /\ mc_i' = 1
    /\ UNCHANGED <<script, gen_vars, inputs, dep_inputs, cargo_f>>

\* lines 55-57: one iteration of the second loop over inputs
WriteUse ==
    /\ script = "make_crate" /\ mc_pc = "uses" /\ mc_i <= Len(inputs)
    /\ src_f' = Append(src_f, Line("pub_use", mod_name(inputs[mc_i])))
    /\ mc_i' = mc_i + 1
    /\ UNCHANGED <<script, gen_vars, inputs, dep_inputs, mc_pc, cargo_f>>

\* make_crate returns
McReturn ==
    /\ script = "make_crate" /\ mc_pc = "uses" /\ mc_i > Len(inputs)
    /\ mc_pc' = "done"
    /\ UNCHANGED <<script, gen_vars, inputs, dep_inputs, mc_i, cargo_f, src_f>>

McNext ==
    \/ WriteCargoToml \/ WriteLibHeader \/ WriteDep \/ EndDeps
    \/ WriteMod \/ EndMods \/ WriteUse \/ McReturn

----------------------------------------------------------------------------
(* The process runs one of the two scripts. *)

Init ==
    \/ script = "gen" /\ GenInit /\ McIdle
    \/ script = "make_crate" /\ McInit /\ GenIdle

Next == GenNext \/ McNext

Spec == Init /\ [][Next]_vars


----------------------------------------------------------------------------
(* What the claims speak of *)

OutputFiles == {"BUILD.gn", "user.bootfs.manifest", "user.bootfs.d"}

\* the configs in package_configs order, and those main has been through
Configs == [j \in 1..Len(package_configs) |-> fs[package_configs[j]]]
Processed == SubSeq(Configs, 1, ci - 1)

AllValid == \A j \in 1..Len(Configs) : Valid(Configs[j])
IsNotJSON(c) == c.readable /\ ~c.json

RECURSIVE Flatten(_)
Flatten(ss) == IF ss = <<>> THEN <<>> ELSE Head(ss) \o Flatten(Tail(ss))

\* the labels and the binary entries a list of valid configs describes
LabelsOf(cs) == [j \in 1..Len(cs) |-> cs[j].label[1]]
EntriesOf(cs) ==
    Flatten([j \in 1..Len(cs) |->
               [k \in 1..Len(cs[j].items) |->
                  [binary |-> cs[j].items[k].binary[1],
                   bootfs_path |-> cs[j].items[k].bootfs_path[1]]]])

\* the dependency list of a BUILD.gn
DepsIn(file) ==
    LET deps == SelectSeq(file.text, LAMBDA l : l.kind = "dep")
    IN  [j \in 1..Len(deps) |-> deps[j].val]

Occurrences(x, seq) == Cardinality({j \in 1..Len(seq) : seq[j] = x})

ManifestName ==
    <<"gen", "/", "packages", "/", "mkbootfs", "/",
      "user", ".", "bootfs", ".", "manifest">>

\* the lists main holds after going through the configs cs
RECURSIVE Collect(_, _, _)
Collect(cs, ls, bins) ==
    IF cs = <<>> THEN [labels |-> ls, binaries |-> bins]
    ELSE LET r == parse_config(Head(cs), ls, bins)
         IN  Collect(Tail(cs), r.labels, r.binaries)

\* the lines of src/lib.rs of one kind: where they are, and what they are
KindIs(kind) == {k \in 1..Len(src_f) : src_f[k].kind = kind}
LinesOf(kind) == SelectSeq(src_f, LAMBDA l : l.kind = kind)

----------------------------------------------------------------------------
(* Claims *)

\* C1: a config whose processing fails inside parse_config contributes no
\* label and no binary entry: the collected labels and binaries are those of
\* the valid configs among the configs gone through, nothing else.
C1_FailedConfigContributesNothing ==
    script = "gen" =>
        LET ok == SelectSeq(Processed, Valid) IN
        /\ labels = LabelsOf(ok)
        /\ binaries = EntriesOf(ok)

\* C2 as stated: the output directory exists before any output file is
\* written, and a failed directory creation leaves no output file written.
C2_DirBeforeAnyWrite ==
    script = "gen" =>
        /\ written # {} => disk.dir
        /\ abort_at = "makedirs" => written = {}

\* C2 as amended: the output directory exists before the manifest or the
\* depfile is written; when its creation fails the run has written BUILD.gn,
\* and neither the manifest nor the depfile.
C2_DirBeforeManifestAndDepfile ==
    script = "gen" =>
        /\ written \cap {"user.bootfs.manifest", "user.bootfs.d"} # {} => disk.dir
        /\ abort_at = "makedirs" =>
              /\ pc = "Aborted" /\ ~disk.dir
              /\ written = {"BUILD.gn"}
              /\ gn_calls = 0

C2_Witness ==
    /\ script = "gen" /\ run = 1 /\ abort_at = "makedirs"
    /\ disk.build_gn = File(build_gn_text(labels))
    /\ ~disk.manifest.exists

\* C3: for valid configs, the dependency list of the BUILD.gn written is
\* "//packages/mkbootfs" followed by the configs' labels in package_configs
\* order, a label as often as it occurs.
C3_BuildGnDeps ==
    (script = "gen" /\ AllValid /\ "BUILD.gn" \in written) =>
        /\ disk.build_gn.exists
        /\ DepsIn(disk.build_gn) = <<"//packages/mkbootfs">> \o LabelsOf(Configs)
        /\ \A j \in 1..Len(Configs) :
              Occurrences(Configs[j].label[1], DepsIn(disk.build_gn))
                = Occurrences(Configs[j].label[1], LabelsOf(Configs))

C3_Witness ==
    /\ script = "gen" /\ AllValid /\ "BUILD.gn" \in written
    /\ LabelsOf(Configs) = <<"//b", "//a", "//b", "//b">>

\* C4: for valid configs, the manifest written has one line per binary entry,
\* in config order then within-file order, the i-th line being
\* <bootfs_path>=join(outdir_path, <binary>) of the i-th entry.
C4_ManifestLines ==
    (script = "gen" /\ AllValid /\ "user.bootfs.manifest" \in written) =>
        LET es == EntriesOf(Configs) IN
        /\ disk.manifest.exists
        /\ Len(disk.manifest.text) = Len(es)
        /\ \A j \in 1..Len(es) :
              /\ disk.manifest.text[j].dest = es[j].bootfs_path
              /\ disk.manifest.text[j].src
                   = join(join(<<"/", "fuchsia">>, outdir), es[j].binary)

C4_Witness ==
    /\ script = "gen" /\ AllValid /\ "user.bootfs.manifest" \in written
    /\ outdir = <<"out", "/", "Debug">>
    /\ Len(disk.manifest.text) = 6
    /\ disk.manifest.text[1].src = <<"/", "prebuilt", "/", "b">>
    /\ disk.manifest.text[2].src
         = <<"/", "fuchsia", "/", "out", "/", "Debug", "/", "a", ".", "bin">>
    /\ disk.manifest.text[3] = disk.manifest.text[2]

\* C5 as stated: the depfile is one line whose target is the manifest file,
\* whose first prerequisite is the generating script, followed by the binary
\* of every collected entry.
C5_TargetIsManifest ==
    (script = "gen" /\ "user.bootfs.d" \in written) =>
        /\ Len(disk.depfile.text) = 1
        /\ disk.depfile.text[1][1] = ManifestName \o <<":">>
        /\ disk.depfile.text[1][2] = <<"gen", ".", "py">>
        /\ SubSeq(disk.depfile.text[1], 3, Len(disk.depfile.text[1]))
             = [j \in 1..Len(binaries) |-> binaries[j].binary]

\* C5 as amended: the depfile is one line whose target is user.bootfs, whose
\* first prerequisite is the manifest, followed by the relative binary path of
\* every collected entry, one per entry, in the order of the manifest lines.
C5_TargetIsBootfs ==
    (script = "gen" /\ "user.bootfs.d" \in written) =>
        LET line == disk.depfile.text[1]
            bins == SubSeq(line, 3, Len(line))
        IN  /\ Len(disk.depfile.text) = 1
            /\ line[1] = <<"user", ".", "bootfs", ":">>
            /\ line[2] = ManifestName
            /\ bins = [j \in 1..Len(binaries) |-> binaries[j].binary]
            /\ Len(bins) = Len(disk.manifest.text)
            /\ \A j \in 1..Len(bins) :
                  disk.manifest.text[j].src
                    = join(join(<<"/", "fuchsia">>, outdir), bins[j])

C5_Witness ==
    /\ script = "gen" /\ "user.bootfs.d" \in written
    /\ Len(disk.depfile.text[1]) >= 5
    /\ disk.depfile.text[1][3] # disk.depfile.text[1][4]

\* C6: a config that is not JSON is skipped. With every config readable, the
\* labels and binaries collected, and so the three files, are those of the
\* run without the configs that are not JSON; when the other configs are
\* valid, they are these configs' labels and binaries in order; and the only
\* exceptions that end the run are those of the output files, the output
\* directory and gn.
C6_NotJSONSkipped ==
    (/\ script = "gen"
     /\ \A j \in 1..Len(Configs) : Configs[j].readable
     /\ \E j \in 1..Len(Configs) : IsNotJSON(Configs[j])) =>
        LET others == SelectSeq(Configs, LAMBDA c : ~IsNotJSON(c))
            got == Collect(others, <<>>, <<>>)
            valid == \A j \in 1..Len(others) : Valid(others[j])
        IN  /\ abort_at # "open_config"
            /\ pc \in {"write_build_gn", "makedirs", "write_manifest",
                       "write_depfile", "invoke_gn", "Done"} =>
                  /\ labels = got.labels /\ binaries = got.binaries
                  /\ valid => /\ labels = LabelsOf(others)
                              /\ binaries = EntriesOf(others)
            /\ "BUILD.gn" \in written =>
                  DepsIn(disk.build_gn) = <<"//packages/mkbootfs">> \o got.labels
            /\ "user.bootfs.manifest" \in written =>
                  disk.manifest.text = manifest_text(got.binaries, outdir)
            /\ "user.bootfs.d" \in written =>
                  disk.depfile.text = depfile_text(got.binaries)
            /\ pc = "Done" => written = OutputFiles /\ gn_calls = 1

C6_Witness ==
    /\ script = "gen" /\ pc = "Done"
    /\ Valid(Configs[1]) /\ IsNotJSON(Configs[2])
    /\ Valid(Configs[3]) /\ Valid(Configs[4])
    /\ Configs[1].label # Configs[3].label
    /\ Len(binaries) = 5

\* C7: gn is invoked at most once in a run, and only after every config was
\* processed and the three files were written; a non-zero exit of gn ends the
\* run Aborted with a non-zero status; the run returns 0 only after gn exited
\* with 0.
C7_PipelineOrder ==
    script = "gen" =>
        /\ gn_calls <= 1
        /\ gn_calls = 1 => ci = Len(package_configs) + 1 /\ written = OutputFiles
        /\ gn_calls = 1 <=> gn_status # -1
        /\ gn_status \notin {-1, 0} => pc = "Aborted" /\ exit_status \notin {-1, 0}
        /\ pc = "invoke_gn" => written = OutputFiles /\ gn_calls = 0
        /\ exit_status = 0 <=> pc = "Done"
        /\ pc = "Done" => gn_calls = 1 /\ gn_status = 0

C7_Witness ==
    /\ script = "gen" /\ gn_calls = 1 /\ gn_status = 1 /\ pc = "Aborted"

\* C8: a file written by two successive runs on the same configs and the same
\* --outdir has the same content after the second as after the first,
\* whatever was on disk before.
C8_Idempotent ==
    (script = "gen" /\ run >= 2) =>
        /\ ("BUILD.gn" \in written \cap prev.written) =>
              disk.build_gn = prev.build_gn
        /\ ("user.bootfs.manifest" \in written \cap prev.written) =>
              disk.manifest = prev.manifest
        /\ ("user.bootfs.d" \in written \cap prev.written) =>
              disk.depfile = prev.depfile

C8_Witness ==
    /\ script = "gen" /\ run = 2
    /\ written = OutputFiles /\ prev.written = OutputFiles
    /\ Len(disk.manifest.text) >= 2 /\ Len(labels) >= 2

\* C9: a config that cannot be opened ends the run: no later config is
\* processed, no output file is written and gn is not invoked.
C9_UnreadableAborts ==
    \A u \in 1..Len(package_configs) :
        (/\ script = "gen"
         /\ ~Configs[u].readable
         /\ \A j \in 1..(u - 1) : Configs[j].readable) =>
            /\ ci <= u
            /\ pc \in {"parse", "Aborted"}
            /\ pc = "Aborted" => abort_at = "open_config" /\ ci = u
            /\ exit_status # 0
            /\ written = {} /\ gn_calls = 0
            /\ run = 1 => disk \in {FreshDisk, StaleDisk}

C9_Witness ==
    /\ script = "gen" /\ pc = "Aborted" /\ abort_at = "open_config"
    /\ ci = 2 /\ labels # <<>>
    /\ Valid(Configs[3])

====
